---- MODULE Spec2Model ----
(***************************************************************************)
(* Color-dle: the daily colour-guessing puzzle of src/app/page.tsx (the    *)
(* Colordle component and the storage utilities) and src/unnamed/part_000  *)
(* (the colour utilities).                                                 *)
(*                                                                         *)
(* A string is a sequence of one-character strings, so that toUpperCase,   *)
(* toLowerCase, padStart and the hex parsing are computed, not assumed.    *)
(* A JavaScript number is an integer here; the HSL arithmetic is carried   *)
(* out exactly in units of 1/600000.                                       *)
(*                                                                         *)
(* React runs the setters of one callback as one update and the effects of *)
(* the render it causes before the next event, so a handler, the render    *)
(* and the save effect are one step.  The callback handleColorClick defers *)
(* with setTimeout is a step of its own: it keeps the color and the guesses*)
(* of the render in which the click was made.  handleColorClick is taken   *)
(* as the entry point the presentation calls, whatever the buttons show.   *)
(*                                                                         *)
(* Spec is a session within one day, with overlapping clicks; SpecDays is  *)
(* a session over which the date changes.  SpecStore, SpecProximity and    *)
(* SpecPosition call the exported utilities on their own, outside a        *)
(* session: the storage utilities in any order while the clock runs,       *)
(* isWithinProximity and findColorPosition once per choice of arguments.   *)
(***************************************************************************)
EXTENDS Integers, Sequences, FiniteSets, TLC

(***************************************************************************)
(* Bounds of the model.                                                    *)
(***************************************************************************)
\* The clock runs from 0 to MaxNow ticks, two ticks to a UTC calendar day.
MaxNow == 2
\* Deferred guess callbacks (setTimeout, 200 ms) that may be pending at once
\* in a session within one day (Spec).
MaxPending == 2
\* The same, in a session over which days pass (SpecDays).
MaxPendingDays == 1
\* isWithinProximity is called with maxDistance from 0 to MaxDistance.
MaxDistance == 2
\* findColorPosition is called with the generated grid and with every grid of
\* at most MaxGridLen colours of a palette of three.
MaxGridLen == 3

(***************************************************************************)
(* Program constants.                                                      *)
(***************************************************************************)
ROWS == 16
COLS == 20
MAX_ATTEMPTS == 3
\* clues.length, also the literal of setCurrentClue(3)
TOTAL_CLUES == 3
\* the proximity radius handed to isWithinProximity
CLOSE_DISTANCE == 1

VARIABLES
    now,            \* the wall clock, in ticks
    storage,        \* localStorage's item under STORAGE_KEY
    isLoaded,       \* the component's isLoaded state
    guesses,        \* the component's guesses state
    currentClue,    \* the component's currentClue state
    gameState,      \* the component's gameState state
    showHowToPlay,  \* the component's showHowToPlay state
    pending,        \* the setTimeout callbacks of accepted clicks, in order
    lastOp,         \* history: the operation that made the last step
    lastLoad,       \* history: the call of loadGameState the last step began with
    call            \* a call of a utility made on its own: its arguments, its result

vars == <<now, storage, isLoaded, guesses, currentClue, gameState,
          showHowToPlay, pending, lastOp, lastLoad, call>>

(***************************************************************************)
(* Strings and numbers.                                                    *)
(***************************************************************************)
Abs(n) == IF n < 0 THEN -n ELSE n

Max(a, b) == IF a > b THEN a ELSE b

HexDigitsLower ==
    <<"0", "1", "2", "3", "4", "5", "6", "7",
      "8", "9", "a", "b", "c", "d", "e", "f">>

HexDigitsUpper ==
    <<"0", "1", "2", "3", "4", "5", "6", "7",
      "8", "9", "A", "B", "C", "D", "E", "F">>

\* String.prototype.toUpperCase on one character
CharToUpper(ch) ==
    CASE ch = "a" -> "A" [] ch = "b" -> "B" [] ch = "c" -> "C"
      [] ch = "d" -> "D" [] ch = "e" -> "E" [] ch = "f" -> "F"
      [] OTHER -> ch

\* String.prototype.toLowerCase on one character
CharToLower(ch) ==
    CASE ch = "A" -> "a" [] ch = "B" -> "b" [] ch = "C" -> "c"
      [] ch = "D" -> "d" [] ch = "E" -> "e" [] ch = "F" -> "f"
      [] OTHER -> ch

toUpperCase(s) == [i \in 1..Len(s) |-> CharToUpper(s[i])]

toLowerCase(s) == [i \in 1..Len(s) |-> CharToLower(s[i])]

\* Number.prototype.toString(16) for 0 <= n <= 255
toString16(n) ==
    IF n < 16 THEN <<HexDigitsLower[n + 1]>>
    ELSE <<HexDigitsLower[(n \div 16) + 1], HexDigitsLower[(n % 16) + 1]>>

\* String.prototype.padStart(2, "0")
padStart2(s) == IF Len(s) < 2 THEN <<"0">> \o s ELSE s

\* the value of one hex digit of either case; -1 for any other character
HexValue(ch) ==
    IF \E i \in 1..16 : HexDigitsLower[i] = CharToLower(ch)
    THEN (CHOOSE i \in 1..16 : HexDigitsLower[i] = CharToLower(ch)) - 1
    ELSE -1

(***************************************************************************)
(* Colour utilities (src/unnamed/part_000).                                *)
(***************************************************************************)
\* The fixed point of the HSL arithmetic: one unit is 1/600000.
HSL_UNIT == 600000

\* Math.round of value/HSL_UNIT, value >= 0: halves round up
MathRound(value) == (value + (HSL_UNIT \div 2)) \div HSL_UNIT

\* The products (x + m) * 255 that are exactly k + 1/2 in real arithmetic are
\* where binary64 arithmetic decides the rounding.  Evaluated in binary64, the
\* product falls just below the half when l = 0.95 and the added component
\* is 0 (m = 0.95 - 0.05 gives 0.8999999999999999) and when l = 0.75, h = 288
\* and the added component is x ((4.8 % 2) - 1 gives 0.7999999999999998);
\* at every other half of the 16 x 20 grid it is the half exactly.
Binary64FallsShort(h, l, isX, add) ==
    \/ l = 95 /\ add = 0
    \/ l = 75 /\ h = 288 /\ isX

\* Math.round((component + m) * 255): the channel value 0..255
Channel(h, l, isX, add, m) ==
    LET product == (add + m) * 255
        isHalf  == product % HSL_UNIT = HSL_UNIT \div 2
    IN  IF isHalf /\ Binary64FallsShort(h, l, isX, add)
        THEN MathRound(product) - 1
        ELSE MathRound(product)

\* hslToHex(h, s, l): h in degrees, s and l in percent
hslToHex(h, s, l) ==
    LET cn == (100 - Abs(2 * l - 100)) * s        \* c, in 1/10000
        c  == 60 * cn
        x  == cn * (60 - Abs((h % 120) - 60))
        m  == 6000 * l - 30 * cn
        \* which of c, x, 0 goes to r, g, b: "c", "x" or "0"
        sel == IF 0 <= h /\ h < 60 THEN <<"c", "x", "0">>
               ELSE IF 60 <= h /\ h < 120 THEN <<"x", "c", "0">>
               ELSE IF 120 <= h /\ h < 180 THEN <<"0", "c", "x">>
               ELSE IF 180 <= h /\ h < 240 THEN <<"0", "x", "c">>
               ELSE IF 240 <= h /\ h < 300 THEN <<"x", "0", "c">>
               ELSE IF 300 <= h /\ h < 360 THEN <<"c", "0", "x">>
               ELSE <<"0", "0", "0">>
        comp(k) == IF sel[k] = "c" THEN c ELSE IF sel[k] = "x" THEN x ELSE 0
        hex(k)  == padStart2(toString16(
                       Channel(h, l, sel[k] = "x", comp(k), m)))
    IN  toUpperCase(<<"#">> \o hex(1) \o hex(2) \o hex(3))

\* CellColor with the hue Math.floor(col / cols) * 360: the quotient is
\* floored before it is scaled, and every column has hue 0
CellColor_HueFlooredFirst(row, col) ==
    LET hue        == (col \div COLS) * 360
        saturation == 100
        lightness  == IF row < 4 THEN 95 - row * 10 ELSE 60 - (row - 4) * 4
    IN  hslToHex(hue, saturation, lightness)

\* the colour generateColorGrid pushes for (row, col)
CellColor(row, col) ==
    LET hue        == (col * 360) \div COLS
        saturation == 100
        lightness  == IF row < 4 THEN 95 - row * 10 ELSE 60 - (row - 4) * 4
    IN  hslToHex(hue, saturation, lightness)

\* the colours the inner loop pushes for the columns 0..(n - 1) of a row
RECURSIVE RowPushed(_, _)
RowPushed(row, n) ==
    IF n = 0 THEN <<>>
    ELSE Append(RowPushed(row, n - 1), CellColor(row, n - 1))

\* the colours the outer loop pushes for the rows 0..(n - 1)
RECURSIVE RowsPushed(_)
RowsPushed(n) ==
    IF n = 0 THEN <<>>
    ELSE RowsPushed(n - 1) \o RowPushed(n - 1, COLS)

\* generateColorGrid(): the ROWS x COLS colours, row by row (1-indexed here)
generateColorGrid == RowsPushed(ROWS)

\* hexToRgb(hex): the regular expression /^#?([a-f\d]{2}){3}$/i, then
\* parseInt(_, 16) per channel; {r: 0, g: 0, b: 0} when it does not match
hexToRgb(hex) ==
    LET body == IF Len(hex) >= 1 /\ hex[1] = "#" THEN Tail(hex) ELSE hex
        ok   == Len(body) = 6 /\ \A i \in 1..6 : HexValue(body[i]) >= 0
        byte(k) == 16 * HexValue(body[2 * k - 1]) + HexValue(body[2 * k])
    IN  IF ok THEN [r |-> byte(1), g |-> byte(2), b |-> byte(3)]
        ELSE [r |-> 0, g |-> 0, b |-> 0]

\* the square of the Euclidean distance of findColorPosition; Math.sqrt is
\* strictly increasing on these integers, so the comparison is the same
DistanceSquared(p, q) ==
    (p.r - q.r) * (p.r - q.r) + (p.g - q.g) * (p.g - q.g)
        + (p.b - q.b) * (p.b - q.b)

\* {row: Math.floor(index / 16), col: index % 16}: the number of rows taken
\* for the number of columns
PositionOfIndex_ByRows(index) == [row |-> index \div 16, col |-> index % 16]

\* {row: Math.floor(index / 20), col: index % 20} for a 0-based index
PositionOfIndex(index) == [row |-> index \div 20, col |-> index % 20]

\* minDistance = Infinity: more than the square of any distance of two colours
Infinity == 3 * 255 * 255 + 1

\* the forEach callback with distance <= minDistance: the last of the
\* entries at the minimum wins
ForEachStep_LastWins(found, color, idx, targetRgb) ==
    LET distance == DistanceSquared(hexToRgb(color), targetRgb)
    IN  IF distance <= found.minDistance
        THEN [closestIndex |-> idx, minDistance |-> distance]
        ELSE found

\* the forEach callback of findColorPosition for (color, idx), idx 0-based:
\* closestIndex and minDistance after it
ForEachStep(found, color, idx, targetRgb) ==
    LET distance == DistanceSquared(hexToRgb(color), targetRgb)
    IN  IF distance < found.minDistance
        THEN [closestIndex |-> idx, minDistance |-> distance]
        ELSE found

\* let closestIndex = 0; let minDistance = Infinity
NothingFound == [closestIndex |-> 0, minDistance |-> Infinity]

\* closestIndex and minDistance after forEach has run, from NothingFound,
\* over the entries lo..hi (0-based, lo <= hi).  The depth of an evaluation
\* is bounded, so the run is split in two: the run over lo..hi is the run
\* over the first half continued over the second, and continuing changes
\* closestIndex exactly when the callback, with its own comparison, takes the
\* entry a run over the second half alone ends on.
RECURSIVE ForEachOver(_, _, _, _)
ForEachOver(colors, targetRgb, lo, hi) ==
    IF lo = hi
    THEN ForEachStep(NothingFound, colors[lo + 1], lo, targetRgb)
    ELSE LET mid     == (lo + hi) \div 2
             first   == ForEachOver(colors, targetRgb, lo, mid)
             second  == ForEachOver(colors, targetRgb, mid + 1, hi)
         IN  ForEachStep(first, colors[second.closestIndex + 1],
                         second.closestIndex, targetRgb)

\* closestIndex and minDistance after colors.forEach(...)
ForEachClosest(colors, targetRgb) ==
    IF Len(colors) = 0 THEN NothingFound
    ELSE ForEachOver(colors, targetRgb, 0, Len(colors) - 1)

\* findColorPosition(colors, targetColor)
findColorPosition(colors, targetColor) ==
    LET n       == Len(colors)
        wanted  == toLowerCase(targetColor)
        matches == {i \in 1..n : toLowerCase(colors[i]) = wanted}
    IN  IF matches # {}
        THEN PositionOfIndex(
                 (CHOOSE i \in matches : \A j \in matches : i <= j) - 1)
        ELSE PositionOfIndex(
                 ForEachClosest(colors, hexToRgb(targetColor)).closestIndex)

\* isWithinProximity with the exact match counted as close (distance > 0 lost)
isWithinProximity_ExactIsClose(guessPos, targetPos, maxDistance) ==
    Max(Abs(guessPos.col - targetPos.col), Abs(guessPos.row - targetPos.row))
        <= maxDistance

\* isWithinProximity with the differences taken without Math.abs
isWithinProximity_Signed(guessPos, targetPos, maxDistance) ==
    LET horizontalDistance == guessPos.col - targetPos.col
        verticalDistance   == guessPos.row - targetPos.row
        distance == Max(horizontalDistance, verticalDistance)
    IN  distance <= maxDistance /\ distance > 0

\* isWithinProximity with the sum of the two distances for their maximum
isWithinProximity_Manhattan(guessPos, targetPos, maxDistance) ==
    LET horizontalDistance == Abs(guessPos.col - targetPos.col)
        verticalDistance   == Abs(guessPos.row - targetPos.row)
        distance == horizontalDistance + verticalDistance
    IN  distance <= maxDistance /\ distance > 0

\* isWithinProximity(guessPos, targetPos, maxDistance)
isWithinProximity(guessPos, targetPos, maxDistance) ==
    LET horizontalDistance == Abs(guessPos.col - targetPos.col)
        verticalDistance   == Abs(guessPos.row - targetPos.row)
        distance == Max(horizontalDistance, verticalDistance)
    IN  distance <= maxDistance /\ distance > 0

(***************************************************************************)
(* The component's constants (src/app/page.tsx, Colordle).                 *)
(***************************************************************************)
\* const [colors] = useState(() => generateColorGrid())
colors == generateColorGrid

\* a target one step of blue from "#FFB3E0": a colour the grid does not hold
targetColor_OffGrid == <<"#", "F", "F", "B", "3", "E", "1">>

\* const targetColor = "#FFB3E0"
targetColor == <<"#", "F", "F", "B", "3", "E", "0">>

\* const targetPosition = findColorPosition(colors, targetColor)
targetPosition == findColorPosition(colors, targetColor)

\* The grid cells (0-based indices) a click is drawn from: the target's cell
\* (row 1, col 18), its diagonal neighbour (row 0, col 19) and the cell two
\* rows below it (row 3, col 18).
ClickCells == {38, 19, 78}

ClickColors == {colors[i + 1] : i \in ClickCells}

\* findColorPosition(colors, color) for each colour a click can carry,
\* computed once: the grid is fixed and the function is pure
ClickPositions == {<<color, findColorPosition(colors, color)>> : color \in ClickColors}

(***************************************************************************)
(* Storage utilities (src/app/page.tsx, storageUtils).                     *)
(*                                                                         *)
(* The item of localStorage is absent or a text.  A text is the JSON of an *)
(* object (its key/value pairs in the order JSON.stringify writes them),   *)
(* the JSON "null", the JSON of another value that is no object (a number, *)
(* a string, a boolean), the empty string, or something JSON.parse rejects.*)
(***************************************************************************)
NoItem == [form |-> "absent", pairs |-> <<>>]

GarbageText == [form |-> "garbage", pairs |-> <<>>]

NullText == [form |-> "null", pairs |-> <<>>]

\* the empty string: getItem returns "", which is falsy
EmptyText == [form |-> "empty", pairs |-> <<>>]

\* the JSON of a number, a string or a boolean: a value without properties
ScalarText == [form |-> "scalar", pairs |-> <<>>]

\* the JSON "{}": an object without a date
EmptyObjectText == [form |-> "object", pairs |-> <<>>]

\* the value of a property an object does not have
Undefined == "undefined"

\* getTodayString(): the UTC date of the clock, toISOString().split("T")[0]
getTodayString(t) == t \div 2

\* JSON.stringify of a GameState object
Stringify(gs) ==
    [form  |-> "object",
     pairs |-> << <<"guesses", gs.guesses>>,
                  <<"currentClue", gs.currentClue>>,
                  <<"gameStatus", gs.gameStatus>>,
                  <<"hasSeenInstructions", gs.hasSeenInstructions>>,
                  <<"date", gs.date>> >>]

\* the object JSON.parse gives for an object text has the key
HasKey(text, key) == \E i \in 1..Len(text.pairs) : text.pairs[i][1] = key

\* the value JSON.parse gives to a key of an object text
Member(text, key) ==
    IF HasKey(text, key)
    THEN text.pairs[CHOOSE i \in 1..Len(text.pairs) : text.pairs[i][1] = key][2]
    ELSE Undefined

\* JSON.parse of an object text
Parse(text) ==
    [guesses             |-> Member(text, "guesses"),
     currentClue         |-> Member(text, "currentClue"),
     gameStatus          |-> Member(text, "gameStatus"),
     hasSeenInstructions |-> Member(text, "hasSeenInstructions"),
     date                |-> Member(text, "date")]

\* gameState.date !== today, for the value JSON.parse gave
DateDiffers(item, t) ==
    \/ item.form = "scalar"
    \/ ~HasKey(item, "date")
    \/ Member(item, "date") # getTodayString(t)

\* loadGameState that returns null for another day's state but leaves the
\* item in place (removeItem lost)
loadGameState_KeepsStale(item, t) ==
    IF item.form \in {"absent", "empty", "garbage", "null"}
           \/ DateDiffers(item, t)
    THEN [result |-> <<>>, item |-> item, threw |-> FALSE]
    ELSE [result |-> <<Parse(item)>>, item |-> item, threw |-> FALSE]

\* loadGameState without its try/catch: the SyntaxError of JSON.parse and the
\* TypeError of null.date reach the caller
loadGameState_Uncaught(item, t) ==
    IF item.form \in {"absent", "empty"}
    THEN [result |-> <<>>, item |-> item, threw |-> FALSE]
    ELSE IF item.form \in {"garbage", "null"}
    THEN [result |-> <<>>, item |-> item, threw |-> TRUE]
    ELSE IF DateDiffers(item, t)
    THEN [result |-> <<>>, item |-> NoItem, threw |-> FALSE]
    ELSE [result |-> <<Parse(item)>>, item |-> item, threw |-> FALSE]

\* loadGameState() at time t on the item `item`: the value returned (<<>> for
\* null, <<gameState>> otherwise), the item left in localStorage and whether
\* an exception reached the caller
loadGameState(item, t) ==
    IF item.form \in {"absent", "empty"}                 \* if (!stored)
    THEN [result |-> <<>>, item |-> item, threw |-> FALSE]
    ELSE IF item.form = "garbage"                        \* JSON.parse throws
    THEN [result |-> <<>>, item |-> item, threw |-> FALSE]
    ELSE IF item.form = "null"                           \* null.date throws
    THEN [result |-> <<>>, item |-> item, threw |-> FALSE]
    ELSE IF DateDiffers(item, t)                         \* removeItem
    THEN [result |-> <<>>, item |-> NoItem, threw |-> FALSE]
    ELSE [result |-> <<Parse(item)>>, item |-> item, threw |-> FALSE]

\* saveGameState that stamps the date of the clock's origin, not today's
saveGameState_StampsOrigin(state, t) ==
    Stringify([guesses             |-> state.guesses,
               currentClue         |-> state.currentClue,
               gameStatus          |-> state.gameStatus,
               hasSeenInstructions |-> state.hasSeenInstructions,
               date                |-> getTodayString(0)])

\* saveGameState(state) at time t: the item written
saveGameState(state, t) ==
    Stringify([guesses             |-> state.guesses,
               currentClue         |-> state.currentClue,
               gameStatus          |-> state.gameStatus,
               hasSeenInstructions |-> state.hasSeenInstructions,
               date                |-> getTodayString(t)])

\* hasSeenInstructionsToday(): state?.hasSeenInstructions ?? false
hasSeenInstructionsToday(item, t) ==
    LET loaded == loadGameState(item, t)
    IN  IF loaded.result = <<>> THEN FALSE
        ELSE loaded.result[1].hasSeenInstructions

\* markInstructionsAsSeen that always writes the minimal state
markInstructionsAsSeen_AlwaysFresh(item, t) ==
    saveGameState(
        [guesses |-> <<>>, currentClue |-> 1,
         gameStatus |-> "playing", hasSeenInstructions |-> TRUE], t)

\* markInstructionsAsSeen() at time t: the item left in localStorage
markInstructionsAsSeen(item, t) ==
    LET loaded == loadGameState(item, t)
    IN  IF loaded.result # <<>>
        THEN saveGameState(
                 [loaded.result[1] EXCEPT !.hasSeenInstructions = TRUE], t)
        ELSE saveGameState(
                 [guesses |-> <<>>, currentClue |-> 1,
                  gameStatus |-> "playing", hasSeenInstructions |-> TRUE], t)

\* history: what a call of loadGameState at time t saw (the form of the item
\* and the date of an object text, -1 otherwise), whether it returned a state,
\* the days on which the guesses it returned were recorded, and the form of
\* the item it left
LoadRecord(item, t) ==
    LET loaded == loadGameState(item, t)
    IN  [called     |-> TRUE,
         day        |-> getTodayString(t),
         beforeForm |-> item.form,
         beforeDate |-> IF item.form = "object" /\ HasKey(item, "date")
                        THEN Member(item, "date") ELSE -1,
         returned   |-> loaded.result # <<>>,
         resultDays |-> IF loaded.result = <<>> THEN {}
                        ELSE {loaded.result[1].guesses[i].madeOn :
                                  i \in 1..Len(loaded.result[1].guesses)},
         afterForm  |-> loaded.item.form]

\* history: the last step called no loadGameState
NoLoad ==
    [called |-> FALSE, day |-> 0, beforeForm |-> "absent", beforeDate |-> -1,
     returned |-> FALSE, resultDays |-> {}, afterForm |-> "absent"]

(***************************************************************************)
(* The game session (src/app/page.tsx, Colordle).                          *)
(***************************************************************************)
\* the guard of handleColorClick without its test of the game status
ClickRejected_AttemptsOnly(status, history) == Len(history) >= MAX_ATTEMPTS

\* the guard of handleColorClick: the click is dropped
ClickRejected(status, history) ==
    status # "playing" \/ Len(history) >= MAX_ATTEMPTS

\* The Guess the deferred callback builds from the position of its colour.
\* madeOn is a history field, not a field of the program's Guess: the day on
\* which the guess was recorded.
GuessAt(color, position, t) ==
    [color    |-> color,
     isClose  |-> isWithinProximity(position, targetPosition, CLOSE_DISTANCE),
     position |-> position,
     madeOn   |-> getTodayString(t)]

\* const position = findColorPosition(colors, color), ...; const newGuess
NewGuess(color, t) ==
    GuessAt(color, (CHOOSE p \in ClickPositions : p[1] = color)[2], t)

\* newGuesses built on the current history (an updater, prev => [...prev, g])
NewGuesses_FromCurrent(closed, current, newGuess) == Append(current, newGuess)

\* const newGuesses = [...guesses, newGuess], guesses being the history the
\* click's render closed over
NewGuesses(closed, current, newGuess) == Append(closed, newGuess)

\* StateSet with the test for the last attempt made before the test for the
\* target colour
StateSet_AttemptsFirst(color, newGuesses, clue, status) ==
    IF Len(newGuesses) >= MAX_ATTEMPTS
    THEN [guesses |-> newGuesses, currentClue |-> TOTAL_CLUES,
          gameState |-> "lost"]
    ELSE IF toLowerCase(color) = toLowerCase(targetColor)
    THEN [guesses |-> newGuesses, currentClue |-> clue, gameState |-> "won"]
    ELSE [guesses |-> newGuesses, currentClue |-> Len(newGuesses) + 1,
          gameState |-> status]

\* StateSet with newGuesses.length > 3 for newGuesses.length >= 3
StateSet_OffByOne(color, newGuesses, clue, status) ==
    IF toLowerCase(color) = toLowerCase(targetColor)
    THEN [guesses |-> newGuesses, currentClue |-> clue, gameState |-> "won"]
    ELSE IF Len(newGuesses) > MAX_ATTEMPTS
    THEN [guesses |-> newGuesses, currentClue |-> TOTAL_CLUES,
          gameState |-> "lost"]
    ELSE [guesses |-> newGuesses, currentClue |-> Len(newGuesses) + 1,
          gameState |-> status]

\* StateSet with setCurrentClue(newGuesses.length), the + 1 lost
StateSet_ClueWithoutOffset(color, newGuesses, clue, status) ==
    IF toLowerCase(color) = toLowerCase(targetColor)
    THEN [guesses |-> newGuesses, currentClue |-> clue, gameState |-> "won"]
    ELSE IF Len(newGuesses) >= MAX_ATTEMPTS
    THEN [guesses |-> newGuesses, currentClue |-> TOTAL_CLUES,
          gameState |-> "lost"]
    ELSE [guesses |-> newGuesses, currentClue |-> Len(newGuesses),
          gameState |-> status]

\* The state the deferred callback sets once it has built newGuesses: clue
\* and status are the current state (a setter that is not called leaves its
\* state as it is).
StateSet(color, newGuesses, clue, status) ==
    IF toLowerCase(color) = toLowerCase(targetColor)
    THEN [guesses |-> newGuesses, currentClue |-> clue, gameState |-> "won"]
    ELSE IF Len(newGuesses) >= MAX_ATTEMPTS
    THEN [guesses |-> newGuesses, currentClue |-> TOTAL_CLUES,
          gameState |-> "lost"]
    ELSE [guesses |-> newGuesses, currentClue |-> Len(newGuesses) + 1,
          gameState |-> status]

\* The deferred callback of a click: closed is the history of the render the
\* click closed over, current the history when the callback runs.
GuessOutcome(color, closed, current, clue, status, t) ==
    StateSet(color, NewGuesses(closed, current, NewGuess(color, t)),
             clue, status)

\* the save effect without gameState among what it saves: the status of
\* the saved state is always playing
SaveEffect_StatusNotSaved(item, t, history, clue, status) ==
    saveGameState(
        [guesses |-> history, currentClue |-> clue, gameStatus |-> "playing",
         hasSeenInstructions |-> hasSeenInstructionsToday(item, t)], t)

\* the save effect with hasSeenInstructions: false, the stored flag not read
SaveEffect_FlagNotRead(item, t, history, clue, status) ==
    saveGameState(
        [guesses |-> history, currentClue |-> clue, gameStatus |-> status,
         hasSeenInstructions |-> FALSE], t)

\* the save effect: saveGameState({guesses, currentClue, gameStatus,
\* hasSeenInstructions: hasSeenInstructionsToday()})
SaveEffect(item, t, history, clue, status) ==
    saveGameState(
        [guesses |-> history, currentClue |-> clue, gameStatus |-> status,
         hasSeenInstructions |-> hasSeenInstructionsToday(item, t)], t)

\* no utility has been called on its own
NoCall == [op |-> "none"]

Init ==
    /\ now = 0
    /\ storage \in {NoItem, EmptyText, GarbageText, NullText, ScalarText,
                    EmptyObjectText}
    /\ isLoaded = FALSE
    /\ guesses = <<>>
    /\ currentClue = 1
    /\ gameState = "playing"
    /\ showHowToPlay = FALSE
    /\ pending = <<>>
    /\ lastOp = "init"
    /\ lastLoad = NoLoad
    /\ call = NoCall

\* The page is loaded, or loaded again: the component is constructed, the
\* load effect runs, isLoaded becomes true and the save effect runs.  The
\* callbacks of the page that is left are gone.
Mount ==
    LET loaded   == loadGameState(storage, now)
        restored == loaded.result # <<>>
        saved    == loaded.result[1]
        history  == IF restored THEN saved.guesses ELSE <<>>
        clue     == IF restored THEN saved.currentClue ELSE 1
        status   == IF restored THEN saved.gameStatus ELSE "playing"
    IN  /\ guesses' = history
        /\ currentClue' = clue
        /\ gameState' = status
        /\ showHowToPlay' =
               IF restored THEN ~saved.hasSeenInstructions
               ELSE ~hasSeenInstructionsToday(loaded.item, now)
        /\ isLoaded' = TRUE
        /\ storage' = SaveEffect(loaded.item, now, history, clue, status)
        /\ pending' = <<>>
        /\ lastLoad' = LoadRecord(storage, now)
        /\ lastOp' = "mount"
        /\ UNCHANGED <<now, call>>

\* handleColorClick(color), up to the setTimeout
HandleColorClick(color, maxPending) ==
    /\ isLoaded
    /\ IF ClickRejected(gameState, guesses)
       THEN /\ lastOp' = "rejected"
            /\ UNCHANGED pending
       ELSE /\ Len(pending) < maxPending
            /\ pending' = Append(pending, [color |-> color, guesses |-> guesses])
            /\ lastOp' = "click"
    /\ lastLoad' = NoLoad
    /\ UNCHANGED <<now, storage, isLoaded, guesses, currentClue, gameState,
                   showHowToPlay, call>>

\* the callback handleColorClick deferred, then the save effect of the render
\* it causes
GuessTimeout ==
    /\ pending # <<>>
    /\ \E outcome \in {GuessOutcome(Head(pending).color, Head(pending).guesses,
                                    guesses, currentClue, gameState, now)} :
           /\ guesses' = outcome.guesses
           /\ currentClue' = outcome.currentClue
           /\ gameState' = outcome.gameState
           /\ storage' = SaveEffect(storage, now, outcome.guesses,
                                    outcome.currentClue, outcome.gameState)
    /\ pending' = Tail(pending)
    /\ lastLoad' = LoadRecord(storage, now)
    /\ lastOp' = "timeout"
    /\ UNCHANGED <<now, isLoaded, showHowToPlay, call>>

\* the "How to Play" button: setShowHowToPlay(true)
ShowInstructions ==
    /\ isLoaded
    /\ ~showHowToPlay
    /\ showHowToPlay' = TRUE
    /\ lastOp' = "show"
    /\ lastLoad' = NoLoad
    /\ UNCHANGED <<now, storage, isLoaded, guesses, currentClue, gameState,
                   pending, call>>

\* closing the modal: setShowHowToPlay(false); markInstructionsAsSeen()
AcknowledgeInstructions ==
    /\ isLoaded
    /\ showHowToPlay
    /\ showHowToPlay' = FALSE
    /\ storage' = markInstructionsAsSeen(storage, now)
    /\ lastLoad' = LoadRecord(storage, now)
    /\ lastOp' = "ack"
    /\ UNCHANGED <<now, isLoaded, guesses, currentClue, gameState, pending,
                   call>>

\* time passes; every second tick the UTC date changes
Tick ==
    /\ now < MaxNow
    /\ now' = now + 1
    /\ lastOp' = "tick"
    /\ lastLoad' = NoLoad
    /\ UNCHANGED <<storage, isLoaded, guesses, currentClue, gameState,
                   showHowToPlay, pending, call>>

\* a session within one day: clicks may come faster than their callbacks
Next ==
    \/ Mount
    \/ \E color \in ClickColors : HandleColorClick(color, MaxPending)
    \/ GuessTimeout
    \/ ShowInstructions
    \/ AcknowledgeInstructions

Spec == Init /\ [][Next]_vars

\* a session over which days pass
NextDays ==
    \/ Mount
    \/ \E color \in ClickColors : HandleColorClick(color, MaxPendingDays)
    \/ GuessTimeout
    \/ ShowInstructions
    \/ AcknowledgeInstructions
    \/ Tick

SpecDays == Init /\ [][NextDays]_vars

(***************************************************************************)
(* The storage utilities called on their own (SpecStore): the component is *)
(* not mounted, the clock runs, and any of the exported functions is       *)
(* called with any state of a bounded set.                                 *)
(***************************************************************************)
\* the histories of the states handed to saveGameState: none, one guess (the
\* target's diagonal neighbour), two guesses (then the target)
StoreHistories ==
    {<<>>,
     <<NewGuess(colors[19 + 1], 0)>>,
     <<NewGuess(colors[19 + 1], 0), NewGuess(colors[38 + 1], 0)>>}

\* the states (Omit<GameState, "date">) handed to saveGameState
StoreStates ==
    [guesses             : StoreHistories,
     currentClue         : 1..TOTAL_CLUES,
     gameStatus          : {"playing", "won", "lost"},
     hasSeenInstructions : BOOLEAN]

InitStore ==
    /\ now = 0
    /\ storage \in {NoItem, EmptyText, GarbageText, NullText, ScalarText,
                    EmptyObjectText}
    /\ isLoaded = FALSE
    /\ guesses = <<>>
    /\ currentClue = 1
    /\ gameState = "playing"
    /\ showHowToPlay = FALSE
    /\ pending = <<>>
    /\ lastOp = "init"
    /\ lastLoad = NoLoad
    /\ call = NoCall

\* saveGameState(state)
SaveCall(state) ==
    /\ storage' = saveGameState(state, now)
    /\ call' = [op |-> "saveGameState", day |-> getTodayString(now),
                state |-> state]
    /\ lastOp' = "call"
    /\ UNCHANGED <<now, isLoaded, guesses, currentClue, gameState,
                   showHowToPlay, pending, lastLoad>>

\* loadGameState()
LoadCall ==
    /\ \E loaded \in {loadGameState(storage, now)} :
           /\ storage' = loaded.item
           /\ call' = [op |-> "loadGameState", day |-> getTodayString(now),
                       previous |-> call.op, before |-> storage,
                       result |-> loaded.result, threw |-> loaded.threw]
    /\ lastOp' = "call"
    /\ UNCHANGED <<now, isLoaded, guesses, currentClue, gameState,
                   showHowToPlay, pending, lastLoad>>

\* clearGameState()
ClearCall ==
    /\ storage' = NoItem
    /\ call' = [op |-> "clearGameState", day |-> getTodayString(now)]
    /\ lastOp' = "call"
    /\ UNCHANGED <<now, isLoaded, guesses, currentClue, gameState,
                   showHowToPlay, pending, lastLoad>>

\* hasSeenInstructionsToday(): its loadGameState may remove the item
HasSeenCall ==
    /\ storage' = loadGameState(storage, now).item
    /\ call' = [op |-> "hasSeenInstructionsToday",
                day |-> getTodayString(now), before |-> storage,
                result |-> hasSeenInstructionsToday(storage, now)]
    /\ lastOp' = "call"
    /\ UNCHANGED <<now, isLoaded, guesses, currentClue, gameState,
                   showHowToPlay, pending, lastLoad>>

\* markInstructionsAsSeen()
MarkCall ==
    /\ storage' = markInstructionsAsSeen(storage, now)
    /\ call' = [op |-> "markInstructionsAsSeen",
                day |-> getTodayString(now), before |-> storage]
    /\ lastOp' = "call"
    /\ UNCHANGED <<now, isLoaded, guesses, currentClue, gameState,
                   showHowToPlay, pending, lastLoad>>

NextStore ==
    \/ \E state \in StoreStates : SaveCall(state)
    \/ LoadCall
    \/ ClearCall
    \/ HasSeenCall
    \/ MarkCall
    \/ Tick

SpecStore == InitStore /\ [][NextStore]_vars

(***************************************************************************)
(* isWithinProximity called on its own (SpecProximity): with every pair of *)
(* positions of the grid and every maxDistance up to MaxDistance.          *)
(***************************************************************************)
\* the positions of the ROWS x COLS grid
Positions == [row : 0..(ROWS - 1), col : 0..(COLS - 1)]

InitProximity ==
    /\ now = 0
    /\ storage = NoItem
    /\ isLoaded = FALSE
    /\ guesses = <<>>
    /\ currentClue = 1
    /\ gameState = "playing"
    /\ showHowToPlay = FALSE
    /\ pending = <<>>
    /\ lastOp = "init"
    /\ lastLoad = NoLoad
    /\ call \in [op : {"arguments"}, guessPos : Positions,
                  targetPos : Positions, maxDistance : 0..MaxDistance]

\* isWithinProximity(guessPos, targetPos, maxDistance)
ProximityCall ==
    /\ call.op = "arguments"
    /\ call' = [op |-> "isWithinProximity", guessPos |-> call.guessPos,
                targetPos |-> call.targetPos,
                maxDistance |-> call.maxDistance,
                result |-> isWithinProximity(call.guessPos, call.targetPos,
                                             call.maxDistance)]
    /\ lastOp' = "call"
    /\ UNCHANGED <<now, storage, isLoaded, guesses, currentClue, gameState,
                   showHowToPlay, pending, lastLoad>>

NextProximity == ProximityCall

SpecProximity == InitProximity /\ [][NextProximity]_vars

(***************************************************************************)
(* findColorPosition called on its own (SpecPosition): with the generated  *)
(* grid and each of its colours, as generated and in lower case, and with  *)
(* colours it does not hold; and with short grids, in which a colour may   *)
(* stand twice, and colours in and out of them.                            *)
(***************************************************************************)
\* colours the generated grid does not hold: one step from the target,
\* white, black, the target without its "#", and a three-digit colour
\* (which the regular expression of hexToRgb does not match)
OtherColors ==
    {<<"#", "F", "F", "B", "3", "E", "1">>,
     <<"#", "F", "F", "F", "F", "F", "F">>,
     <<"#", "0", "0", "0", "0", "0", "0">>,
     <<"f", "f", "b", "3", "e", "0">>,
     <<"#", "F", "F", "F">>}

\* the colours of the short grids
ShortPalette ==
    {<<"#", "0", "0", "0", "0", "0", "0">>,
     <<"#", "0", "0", "0", "0", "0", "2">>,
     <<"#", "0", "0", "0", "0", "0", "A">>}

\* the grids of at most MaxGridLen colours of the palette, the empty grid
\* among them
ShortGrids == UNION {[1..n -> ShortPalette] : n \in 0..MaxGridLen}

\* the colours looked up in a short grid: the palette, the palette in lower
\* case, a colour between two of the palette, one without "#", one of three
\* digits
ShortColors ==
    ShortPalette \cup {toLowerCase(c) : c \in ShortPalette}
        \cup {<<"#", "0", "0", "0", "0", "0", "1">>,
              <<"0", "0", "0", "0", "0", "2">>,
              <<"#", "F", "F", "F">>}

\* the arguments of the calls of findColorPosition
PositionArguments ==
    ({colors} \X (ClickColors \cup {colors[i] : i \in 1..Len(colors)}
                     \cup {toLowerCase(colors[i]) : i \in 1..Len(colors)}
                     \cup OtherColors))
        \cup (ShortGrids \X ShortColors)

InitPosition ==
    /\ now = 0
    /\ storage = NoItem
    /\ isLoaded = FALSE
    /\ guesses = <<>>
    /\ currentClue = 1
    /\ gameState = "playing"
    /\ showHowToPlay = FALSE
    /\ pending = <<>>
    /\ lastOp = "init"
    /\ lastLoad = NoLoad
    /\ \E arguments \in PositionArguments :
           call = [op |-> "arguments", colors |-> arguments[1],
                   targetColor |-> arguments[2]]

\* findColorPosition(colors, targetColor)
PositionCall ==
    /\ call.op = "arguments"
    /\ call' = [op |-> "findColorPosition", colors |-> call.colors,
                targetColor |-> call.targetColor,
                result |-> findColorPosition(call.colors, call.targetColor)]
    /\ lastOp' = "call"
    /\ UNCHANGED <<now, storage, isLoaded, guesses, currentClue, gameState,
                   showHowToPlay, pending, lastLoad>>

NextPosition == PositionCall

SpecPosition == InitPosition /\ [][NextPosition]_vars

(***************************************************************************)
(* Properties.                                                             *)
(***************************************************************************)
IsPrefix(a, b) == Len(a) <= Len(b) /\ SubSeq(b, 1, Len(a)) = a

IsTarget(color) == toLowerCase(color) = toLowerCase(targetColor)

\* max(|row difference|, |col difference|)
Chebyshev(a, b) == Max(Abs(a.row - b.row), Abs(a.col - b.col))

\* the step is a call of handleColorClick
ClickStep == lastOp' \in {"click", "rejected"}

\* the step runs the deferred callback of the click at the head of pending
TimeoutStep == lastOp' = "timeout"

\* C1: within a session (no page load), once the status is won or lost it
\* never changes again.
C1_StatusIsTerminal ==
    [][(lastOp' # "mount" /\ gameState # "playing")
           => gameState' = gameState]_vars

\* C2: a call of handleColorClick while the status is not playing or the
\* history already has MAX_ATTEMPTS guesses changes neither the history, the
\* clue count, the status, the persisted item nor the pending callbacks.
C2_RejectedClickIsNoOp ==
    [][(ClickStep /\ (gameState # "playing" \/ Len(guesses) >= MAX_ATTEMPTS))
           => UNCHANGED <<guesses, currentClue, gameState, storage, pending>>]_vars

\* a click has just been dropped after the game was decided
C2_Witness ==
    lastOp = "rejected" /\ gameState \in {"won", "lost"} /\ guesses # <<>>

\* C3: within a session the history only grows at its end: the history
\* before a step is a prefix of the history after it.
C3_HistoryIsAppendOnly ==
    [][lastOp' # "mount" => IsPrefix(guesses, guesses')]_vars

\* C4: the history never has more than MAX_ATTEMPTS guesses.
C4_HistoryWithinAttempts == Len(guesses) <= MAX_ATTEMPTS

\* the last attempt has just been recorded
C4_Witness == Len(guesses) = MAX_ATTEMPTS /\ lastOp = "timeout"

\* C5: the callback of an accepted click on the target colour sets the
\* status to won and the history to the history the click saw plus that
\* guess, on every attempt, the last one included.
C5_TargetGuessWins ==
    [][(TimeoutStep /\ IsTarget(Head(pending).color))
           => /\ gameState' = "won"
              /\ Len(guesses') = Len(Head(pending).guesses) + 1
              /\ Len(guesses') <= MAX_ATTEMPTS
              /\ IsPrefix(Head(pending).guesses, guesses')
              /\ guesses'[Len(guesses')].color = Head(pending).color]_vars

\* the third attempt was the target colour and the game is won
C5_Witness ==
    /\ lastOp = "timeout"
    /\ gameState = "won"
    /\ Len(guesses) = MAX_ATTEMPTS
    /\ IsTarget(guesses[MAX_ATTEMPTS].color)
    /\ \A i \in 1..(MAX_ATTEMPTS - 1) : ~IsTarget(guesses[i].color)

\* C6: while the game is being played, the callback of a wrong guess leaves
\* the status playing when it records the first or second guess, and sets it
\* to lost, with every clue unlocked, exactly when it records the third.
C6_ThirdWrongGuessLoses ==
    [][(TimeoutStep /\ gameState = "playing" /\ ~IsTarget(Head(pending).color))
           => /\ Len(guesses') = Len(Head(pending).guesses) + 1
              /\ (Len(guesses') < MAX_ATTEMPTS => gameState' = "playing")
              /\ (Len(guesses') = MAX_ATTEMPTS
                     => gameState' = "lost" /\ currentClue' = TOTAL_CLUES)
              /\ Len(guesses') <= MAX_ATTEMPTS]_vars

\* three wrong guesses have been recorded and the game is lost
C6_Witness ==
    /\ lastOp = "timeout"
    /\ gameState = "lost"
    /\ Len(guesses) = MAX_ATTEMPTS
    /\ \A i \in 1..MAX_ATTEMPTS : ~IsTarget(guesses[i].color)
    /\ currentClue = TOTAL_CLUES

\* C7: while the status is playing the unlocked clue count is the number of
\* guesses plus one.
C7_ClueIsGuessCountPlusOne ==
    gameState = "playing" => currentClue = Len(guesses) + 1

\* two wrong guesses have been recorded and the game goes on
C7_Witness ==
    /\ isLoaded
    /\ gameState = "playing"
    /\ Len(guesses) = 2
    /\ currentClue = 3

\* C8: every recorded guess stands at the cell of its colour and is close
\* exactly when that cell is at Chebyshev distance 1 from the target's.
C8_CloseIsDistanceOne ==
    \A i \in 1..Len(guesses) :
        /\ colors[guesses[i].position.row * COLS
                      + guesses[i].position.col + 1] = guesses[i].color
        /\ guesses[i].isClose
               <=> (Chebyshev(guesses[i].position, targetPosition) = 1)

\* the history holds a guess at distance 1, one at distance 2 and the target
C8_Witness ==
    /\ Len(guesses) = 3
    /\ \E i, j, k \in 1..3 :
           /\ Chebyshev(guesses[i].position, targetPosition) = 1
           /\ guesses[i].isClose
           /\ Chebyshev(guesses[j].position, targetPosition) = 2
           /\ ~guesses[j].isClose
           /\ Chebyshev(guesses[k].position, targetPosition) = 0
           /\ ~guesses[k].isClose

\* C9: a call of loadGameState returns only guesses that were recorded on
\* the day of the call.
C9_LoadReturnsOnlyTodaysGuesses ==
    (lastLoad.called /\ lastLoad.returned)
        => \A d \in lastLoad.resultDays : d = lastLoad.day

\* C10: a call of loadGameState that finds a state stamped with another day
\* returns null and leaves no item in localStorage.
C10_StaleStateIsRemoved ==
    (/\ lastLoad.called
     /\ lastLoad.beforeForm = "object"
     /\ lastLoad.beforeDate # lastLoad.day)
        => ~lastLoad.returned /\ lastLoad.afterForm = "absent"

\* loadGameState has just been called on a state stamped with the day before
C10_Witness ==
    /\ lastLoad.called
    /\ lastLoad.beforeForm = "object"
    /\ lastLoad.beforeDate < lastLoad.day

\* the item holds a state stamped with the day
RecordOfDay(item, day) ==
    item.form = "object" /\ HasKey(item, "date") /\ Member(item, "date") = day

\* C11: a call of loadGameState that follows a call of saveGameState(s) on
\* the same day, with no other call between them, returns the guesses, the
\* clue count, the status and the instructions flag of s, and that day's date.
C11_SaveThenLoadRoundTrip ==
    [][(/\ call.op = "saveGameState"
        /\ call'.op = "loadGameState"
        /\ call'.day = call.day)
           => call'.result =
                  << [guesses             |-> call.state.guesses,
                      currentClue         |-> call.state.currentClue,
                      gameStatus          |-> call.state.gameStatus,
                      hasSeenInstructions |-> call.state.hasSeenInstructions,
                      date                |-> call.day] >>]_vars

\* on the second day a state with two guesses, won, instructions seen, has
\* been saved and loaded back
C11_Witness ==
    /\ call.op = "loadGameState"
    /\ call.previous = "saveGameState"
    /\ call.day = 1
    /\ call.result # <<>>
    /\ Len(call.result[1].guesses) = 2
    /\ call.result[1].gameStatus = "won"
    /\ call.result[1].currentClue = 2
    /\ call.result[1].hasSeenInstructions

\* the item is a text that gives no state: the empty string, a text
\* JSON.parse rejects, or the JSON of a value without a date (null, a number,
\* a string, a boolean, an object that has no date)
Undeserializable(item) ==
    \/ item.form \in {"empty", "garbage", "null", "scalar"}
    \/ item.form = "object" /\ ~HasKey(item, "date")

\* C12: a call of loadGameState on a text that gives no state returns null
\* and lets no exception reach its caller: what it returns is what it
\* returns when localStorage has no item.
C12_UndeserializableLoadsAsAbsent ==
    (call.op = "loadGameState" /\ Undeserializable(call.before))
        => /\ call.result = <<>>
           /\ ~call.threw
           /\ call.result = loadGameState(NoItem, now).result
           /\ call.threw = loadGameState(NoItem, now).threw

\* loadGameState has been called on the text "null" (JSON.parse succeeds and
\* reading the date of null throws inside the try)
C12_Witness ==
    /\ call.op = "loadGameState"
    /\ call.before = NullText
    /\ call.result = <<>>
    /\ storage = NullText

\* the item holds the history, the clue count and the status, stamped with
\* the day of t
StoredMatches(item, history, clue, status, t) ==
    /\ RecordOfDay(item, getTodayString(t))
    /\ Member(item, "guesses") = history
    /\ Member(item, "currentClue") = clue
    /\ Member(item, "gameStatus") = status

\* C13: when the callback of a guess has run, the persisted item holds the
\* history, the clue count and the status of the session, stamped with that
\* day; and loading the page again on the day of the last guess gives the
\* session the history, clue count and status it had, so that a game that
\* was won or lost is still won or lost and drops every click.
C13_ReloadRestoresSession ==
    [][/\ TimeoutStep
           => StoredMatches(storage', guesses', currentClue', gameState', now')
       /\ (/\ lastOp' = "mount"
           /\ isLoaded
           /\ guesses # <<>>
           /\ guesses[Len(guesses)].madeOn = getTodayString(now))
              => /\ guesses' = guesses
                 /\ currentClue' = currentClue
                 /\ gameState' = gameState
                 /\ (gameState # "playing"
                        => ClickRejected(gameState', guesses'))]_vars

\* the page has been loaded again on the second day and has restored a game
\* won on that day with its second guess
C13_Witness ==
    /\ lastOp = "mount"
    /\ lastLoad.returned
    /\ lastLoad.day = 1
    /\ gameState = "won"
    /\ Len(guesses) = 2
    /\ guesses[2].madeOn = 1

\* C14: after a call of markInstructionsAsSeen the item is a state of that
\* day whose instructions flag is true; its guesses, clue count and status
\* are those of the state of that day the call found, or, when it found
\* none, no guesses, clue count 1 and status playing.
C14_MarkPatchesOrCreates ==
    call.op = "markInstructionsAsSeen"
        => /\ RecordOfDay(storage, call.day)
           /\ Member(storage, "hasSeenInstructions") = TRUE
           /\ IF RecordOfDay(call.before, call.day)
              THEN /\ Member(storage, "guesses") = Member(call.before, "guesses")
                   /\ Member(storage, "currentClue")
                          = Member(call.before, "currentClue")
                   /\ Member(storage, "gameStatus")
                          = Member(call.before, "gameStatus")
              ELSE /\ Member(storage, "guesses") = <<>>
                   /\ Member(storage, "currentClue") = 1
                   /\ Member(storage, "gameStatus") = "playing"

\* markInstructionsAsSeen has been called on a state of the day that had two
\* guesses, status won, and the flag false
C14_Witness ==
    /\ call.op = "markInstructionsAsSeen"
    /\ RecordOfDay(call.before, call.day)
    /\ Member(call.before, "hasSeenInstructions") = FALSE
    /\ Len(Member(call.before, "guesses")) = 2
    /\ Member(call.before, "gameStatus") = "won"
    /\ Member(storage, "hasSeenInstructions") = TRUE

\* C15: isWithinProximity(a, b, maxDistance) is true exactly when the
\* Chebyshev distance of a and b is more than 0 and at most maxDistance.
C15_ProximityIsChebyshevWithin ==
    call.op = "isWithinProximity"
        => (call.result
               <=> /\ 0 < Chebyshev(call.guessPos, call.targetPos)
                   /\ Chebyshev(call.guessPos, call.targetPos)
                          <= call.maxDistance)

\* a diagonal pair at distance 2 has been found within maxDistance 2: the
\* sum of its two distances is 4
C15_Witness ==
    /\ call.op = "isWithinProximity"
    /\ call.guessPos.row - call.targetPos.row = 2
    /\ call.targetPos.col - call.guessPos.col = 2
    /\ call.maxDistance = 2
    /\ call.result

\* C20: isWithinProximity(a, b, maxDistance) is
\* isWithinProximity(b, a, maxDistance).
C20_ProximityIsSymmetric ==
    call.op = "isWithinProximity"
        => call.result = isWithinProximity(call.targetPos, call.guessPos,
                                           call.maxDistance)

\* the first position is one row above and one column left of the second,
\* and the call has found them close
C20_Witness ==
    /\ call.op = "isWithinProximity"
    /\ call.guessPos.row < call.targetPos.row
    /\ call.guessPos.col < call.targetPos.col
    /\ call.maxDistance = 1
    /\ call.result

\* the two colours are the same string but for the case of their letters
SameColor(a, b) == toLowerCase(a) = toLowerCase(b)

\* the grid holds the colour, compared without regard to case
Present(grid, color) == \E i \in 1..Len(grid) : SameColor(grid[i], color)

\* the 0-based index of the cell of a position
IndexOfPosition(position) == position.row * COLS + position.col

\* C16: for a colour the grid holds (compared without regard to case)
\* findColorPosition returns a row below ROWS and a column below COLS whose
\* cell, at index row * COLS + col, holds that colour, and no cell before it
\* does.
C16_PositionOfPresentColor ==
    (call.op = "findColorPosition" /\ Present(call.colors, call.targetColor))
        => /\ call.result.row \in 0..(ROWS - 1)
           /\ call.result.col \in 0..(COLS - 1)
           /\ IndexOfPosition(call.result) < Len(call.colors)
           /\ SameColor(call.colors[IndexOfPosition(call.result) + 1],
                        call.targetColor)
           /\ \A j \in 1..IndexOfPosition(call.result) :
                  ~SameColor(call.colors[j], call.targetColor)

\* the colour of row 9, column 13 of the generated grid, in lower case, has
\* been found in that cell
C16_Witness ==
    /\ call.op = "findColorPosition"
    /\ call.colors = generateColorGrid
    /\ call.targetColor = toLowerCase(generateColorGrid[9 * COLS + 13 + 1])
    /\ call.targetColor # generateColorGrid[9 * COLS + 13 + 1]
    /\ call.result = [row |-> 9, col |-> 13]

\* the six hex digits of a colour written with or without "#"
DigitsOf(color) ==
    IF Len(color) >= 1 /\ color[1] = "#" THEN Tail(color) ELSE color

\* the colour is six hex digits, with or without "#"
IsRgbColor(color) ==
    /\ Len(DigitsOf(color)) = 6
    /\ \A i \in 1..6 : HexValue(DigitsOf(color)[i]) \in 0..15

\* the square of the Euclidean distance of two colours in RGB space: the sum
\* over the three channels (two hex digits each) of the squared difference
RgbDistanceSquared(a, b) ==
    LET channel(color, k) == 16 * HexValue(DigitsOf(color)[2 * k - 1])
                                 + HexValue(DigitsOf(color)[2 * k])
        diff(k) == channel(a, k) - channel(b, k)
    IN  diff(1) * diff(1) + diff(2) * diff(2) + diff(3) * diff(3)

\* C18: findColorPosition always returns a position.  For a colour the grid
\* does not hold it returns, when the grid is empty, row 0 and column 0, and
\* otherwise the position of an entry whose distance to the colour in RGB
\* space no entry is below and no entry before it equals.
C18_NearestColorFirstOccurrence ==
    call.op = "findColorPosition"
        => /\ call.result.row \in Nat
           /\ call.result.col \in 0..(COLS - 1)
           /\ (/\ ~Present(call.colors, call.targetColor)
               /\ Len(call.colors) = 0)
                  => call.result = [row |-> 0, col |-> 0]
           /\ (/\ ~Present(call.colors, call.targetColor)
               /\ Len(call.colors) > 0
               /\ IsRgbColor(call.targetColor))
                  => /\ IndexOfPosition(call.result) < Len(call.colors)
                     /\ \A j \in 1..Len(call.colors) :
                            RgbDistanceSquared(call.colors[j], call.targetColor)
                                >= RgbDistanceSquared(
                                       call.colors[IndexOfPosition(call.result) + 1],
                                       call.targetColor)
                     /\ \A j \in 1..IndexOfPosition(call.result) :
                            RgbDistanceSquared(call.colors[j], call.targetColor)
                                > RgbDistanceSquared(
                                      call.colors[IndexOfPosition(call.result) + 1],
                                      call.targetColor)

\* #000001 has been looked up in a grid that begins with #000002 and holds
\* #000000 later, both at distance 1, and the first has been returned
C18_Witness ==
    /\ call.op = "findColorPosition"
    /\ call.targetColor = <<"#", "0", "0", "0", "0", "0", "1">>
    /\ Len(call.colors) = 3
    /\ call.colors[1] = <<"#", "0", "0", "0", "0", "0", "2">>
    /\ call.colors[3] = <<"#", "0", "0", "0", "0", "0", "0">>
    /\ call.result = [row |-> 0, col |-> 0]

\* C19: the generated grid has ROWS * COLS colours, no two of them equal,
\* and findColorPosition called with the grid and the colour of a cell
\* returns the row and the column of that cell.
C19_GridCellsAreDistinct ==
    (call.op = "findColorPosition" /\ call.colors = generateColorGrid)
        => /\ Len(generateColorGrid) = ROWS * COLS
           /\ Cardinality({generateColorGrid[i] :
                               i \in 1..Len(generateColorGrid)}) = ROWS * COLS
           /\ \A row \in 0..(ROWS - 1), col \in 0..(COLS - 1) :
                  call.targetColor = generateColorGrid[row * COLS + col + 1]
                      => call.result = [row |-> row, col |-> col]

\* the colour of the last cell of the generated grid has been found in the
\* last row and the last column
C19_Witness ==
    /\ call.op = "findColorPosition"
    /\ call.colors = generateColorGrid
    /\ call.targetColor = generateColorGrid[ROWS * COLS]
    /\ call.result = [row |-> ROWS - 1, col |-> COLS - 1]

C21_StatusMatchesHistory ==
    /\ gameState = "won"
           => /\ guesses # <<>>
              /\ IsTarget(guesses[Len(guesses)].color)
    /\ gameState = "lost"
           => /\ Len(guesses) = MAX_ATTEMPTS
              /\ \A i \in 1..Len(guesses) : ~IsTarget(guesses[i].color)

\* the item is a state of the day of t whose instructions flag is true
SeenOnDayOf(item, t) ==
    /\ RecordOfDay(item, getTodayString(t))
    /\ Member(item, "hasSeenInstructions") = TRUE

\* C22: closing the instructions leaves a state of the day whose flag is
\* true; from then on every step of that day, the save effect after a guess
\* or a page load included, leaves a state of the day whose flag is true;
\* and a page load on that day does not show the instructions.
C22_SeenFlagLastsTheDay ==
    [][/\ lastOp' = "ack" => SeenOnDayOf(storage', now')
       /\ (/\ SeenOnDayOf(storage, now)
           /\ getTodayString(now') = getTodayString(now))
              => SeenOnDayOf(storage', now')
       /\ (SeenOnDayOf(storage, now) /\ lastOp' = "mount")
              => ~showHowToPlay']_vars

\* on the second day the save effect after a second guess has written a
\* state whose flag is true: the instructions had been closed that day
C22_Witness ==
    /\ lastOp = "timeout"
    /\ getTodayString(now) = 1
    /\ SeenOnDayOf(storage, now)
    /\ Len(Member(storage, "guesses")) = 2

\* C23: the generated grid holds the target colour as it is written, the
\* target position is the cell of its first occurrence, and the callback of
\* a click on the colour of that cell, accepted while the game is being
\* played, sets the status to won.
C23_TargetIsWinnable ==
    [][/\ \E i \in 1..Len(colors) :
              /\ colors[i] = targetColor
              /\ \A j \in 1..(i - 1) : colors[j] # targetColor
              /\ targetPosition = [row |-> (i - 1) \div COLS,
                                   col |-> (i - 1) % COLS]
       /\ (/\ TimeoutStep
           /\ Head(pending).color = colors[IndexOfPosition(targetPosition) + 1])
              => gameState' = "won"]_vars

\* from the first page load the game has been won with one click, on the
\* cell of the target position
C23_Witness ==
    /\ lastOp = "timeout"
    /\ gameState = "won"
    /\ Len(guesses) = 1
    /\ guesses[1].position = targetPosition
    /\ guesses[1].color = colors[IndexOfPosition(targetPosition) + 1]
    /\ guesses[1].color = targetColor

====
